---- MODULE Spec2Model ----
(***************************************************************************)
(* A model of fiaas/publish (src/publish.py): the release-tag check, the   *)
(* changelog derivation from the commit graph, the two changelog           *)
(* formatters and the publish() orchestration.                             *)
(*                                                                         *)
(* Strings of the program are sequences of one-character strings, so that  *)
(* the regular expressions and the dictionary keys of the code are         *)
(* computed character by character.  Literal fragments of format strings   *)
(* are kept as single pieces.                                              *)
(***************************************************************************)
EXTENDS Integers, Sequences, FiniteSets

VARIABLES
    \* ---- one run of main()/publish()
    pc,             \* position of the run
    options,        \* argparse namespace: force, dry_run, organization, repository
    github_token,   \* whether GITHUB_TOKEN is set in the environment
    checkout,       \* working tree: is_dirty, untracked_files, current_tag
    repo,           \* the commit graph: parents, annotated tags, head
    ready,          \* what ready_for_release returned
    previous,       \* generate_changelog: the previous tag's commit, 0 for THE_NULL_COMMIT
    changelog,      \* list of (short sha, summary)
    tmpfile,        \* the mkstemp changelog file: "none", "exists", "deleted"
    tmp_content,    \* what was written to it
    build_result,   \* the setup.py subprocess: "unrun", "ok", "failed"
    upload_result,  \* per upload: "unattempted", "ok", "failed"
    return_code,    \* publish's local return_code
    returned,       \* <<v>> once publish has returned v, <<>> before
    exception,      \* the exception that left publish, "none" otherwise
    exit_code,      \* <<v>> once main has called sys.exit(v), <<>> before
    calls,          \* external side effects performed, in order
    printed,        \* what was printed, in order
    \* ---- RELEASE_TAG_PATTERN applied to a tag name
    tag_name, tag_checked, valid_tag,
    \* ---- format_rst_changelog / format_gh_changelog applied to a changelog
    fmt_changelog, fmt_done, rst_output, gh_output

runVars == <<pc, options, github_token, checkout, ready, tmpfile, tmp_content,
             build_result, upload_result, return_code, returned, exception,
             exit_code, calls, printed>>
logVars == <<repo, previous, changelog>>
tagVars == <<tag_name, tag_checked, valid_tag>>
fmtVars == <<fmt_changelog, fmt_done, rst_output, gh_output>>
vars == <<runVars, logVars, tagVars, fmtVars>>

----------------------------------------------------------------------------
(* Bounds of the model *)

MaxTagLen == 8          \* longest tag name tried against RELEASE_TAG_PATTERN
MaxCommits == 4         \* commits of a repository
MaxParents == 2         \* parents of a commit (2: an ordinary merge)
MaxEntries == 2         \* entries of a changelog handed to the formatters
MaxSummaryLen == 3      \* characters of a commit summary

----------------------------------------------------------------------------
(* Strings *)

Digit == {"0", "1", "2", "3", "4", "5", "6", "7", "8", "9"}

\* the characters tag names are built from ("x" stands for any other letter)
TagChars == {"v", "0", "1", ".", "x"}

----------------------------------------------------------------------------
(* Repository.RELEASE_TAG_PATTERN = re.compile(r"^v\d+(\.\d+){0,2}$")       *)
(* computed as the regular expression engine does: the set of positions    *)
(* each part of the pattern can end at.                                    *)

\* \d+ starting at position i: every position right after a non-empty run of digits
DigitsFrom(s, i) ==
    {j \in (i + 1)..(Len(s) + 1) : \A k \in i..(j - 1) : s[k] \in Digit}

\* (\.\d+) starting at position i
GroupFrom(s, i) ==
    IF i <= Len(s) /\ s[i] = "." THEN DigitsFrom(s, i + 1) ELSE {}

\* $ : the end of the string, or just before a newline that ends it
AtEnd(s, j) ==
    \/ j = Len(s) + 1
    \/ j = Len(s) /\ s[j] = "\n"

ReleaseTagPatternMatch(s) ==
    /\ Len(s) >= 1
    /\ s[1] = "v"
    /\ LET p0 == DigitsFrom(s, 2)
           p1 == UNION {GroupFrom(s, i) : i \in p0}
           p2 == UNION {GroupFrom(s, i) : i \in p1}
       IN  \E j \in p0 \cup p1 \cup p2 : AtEnd(s, j)

----------------------------------------------------------------------------
(* The tag-shape check on its own: a tag name is built character by        *)
(* character, then matched as ready_for_release matches it.                *)

TagIdle == tag_name = <<>> /\ tag_checked = FALSE /\ valid_tag = FALSE

AppendTagChar ==
    /\ ~tag_checked
    /\ Len(tag_name) < MaxTagLen
    /\ \E c \in TagChars : tag_name' = Append(tag_name, c)
    /\ UNCHANGED <<tag_checked, valid_tag>>
    /\ UNCHANGED <<runVars, logVars, fmtVars>>

MatchTag ==
    /\ ~tag_checked
    /\ tag_checked' = TRUE
    /\ valid_tag' = ReleaseTagPatternMatch(tag_name)
    /\ UNCHANGED tag_name
    /\ UNCHANGED <<runVars, logVars, fmtVars>>

----------------------------------------------------------------------------
(* The commit graph behind git.Repo.  Commits are numbered in commit-date  *)
(* order: 1 is the oldest and a commit's parents are older than it.        *)
(* repo.parents[c] is the list of c's parents (the first is c^),           *)
(* repo.tagged the commits that carry an annotated tag, repo.head the      *)
(* commit that is checked out.                                             *)

Commits == 1..MaxCommits

Range(f) == {f[i] : i \in DOMAIN f}

Max(S) == CHOOSE x \in S : \A y \in S : y <= x

\* the lists of at most MaxParents distinct commits older than c
RECURSIVE ParentLists(_, _)
ParentLists(c, n) ==
    IF n = 0 THEN {<<>>}
    ELSE LET shorter == ParentLists(c, n - 1)
         IN  shorter \cup {Append(ps, p) : ps \in {q \in shorter : Len(q) = n - 1},
                                          p \in 1..(c - 1)}

ParentChoices(c) ==
    {ps \in ParentLists(c, MaxParents) :
        \A i, j \in DOMAIN ps : i # j => ps[i] # ps[j]}

RECURSIVE ParentMaps(_)
ParentMaps(n) ==
    IF n = 0 THEN {<<>>}
    ELSE {Append(f, ps) : f \in ParentMaps(n - 1), ps \in ParentChoices(n)}

\* every repository of MaxCommits commits whose head carries an annotated tag
AllRepos ==
    {[parents |-> f, tagged |-> t \cup {MaxCommits}, head |-> MaxCommits] :
        f \in ParentMaps(MaxCommits), t \in SUBSET (1..(MaxCommits - 1))}

\* A0 <- A <- B (merge of A and A0) <- C ..., the head tagged, with and
\* without a tag on A
SampleParents(c) == IF c = 1 THEN <<>> ELSE IF c = 3 THEN <<2, 1>> ELSE <<c - 1>>

SampleRepos ==
    {[parents |-> [c \in Commits |-> SampleParents(c)], tagged |-> t, head |-> MaxCommits] :
        t \in {{MaxCommits}, {2, MaxCommits}}}

HexChars == <<"0", "1", "2", "3", "4", "5", "6", "7", "8", "9",
              "a", "b", "c", "d", "e", "f">>

\* commit.hexsha: commits 2k and 2k+1 share their first two characters
Hexsha(c) == <<"1", HexChars[((c \div 2) % 16) + 1], HexChars[(c % 16) + 1]>>

\* commit.summary: every second commit refers to an issue
Summary(c) == IF c % 2 = 0 THEN <<"f", "#", HexChars[(c % 10) + 1]>> ELSE <<"f">>

IsPrefix(p, s) == Len(p) <= Len(s) /\ SubSeq(s, 1, Len(p)) = p

MinAbbrev == 2

\* Repository._shorten: git rev-parse --short, the shortest prefix of at
\* least MinAbbrev characters that names one commit only
Shorten(r, sha) ==
    LET unique(n) == \A d \in DOMAIN r.parents :
                        IsPrefix(SubSeq(sha, 1, n), Hexsha(d)) => Hexsha(d) = sha
        n == CHOOSE n \in MinAbbrev..Len(sha) :
                /\ unique(n) \/ n = Len(sha)
                /\ \A m \in MinAbbrev..(n - 1) : ~unique(m)
    IN  SubSeq(sha, 1, n)

\* the commits reachable from c, c included
RECURSIVE Reach(_, _)
Reach(r, c) == {c} \cup UNION {Reach(r, p) : p \in Range(r.parents[c])}

\* git describe --abbrev=0 <c>: the nearest annotated tag reachable from c
\* (fewest commits between the tag and c, the newest on a tie); 0 when it
\* fails with GitCommandError because no tag is reachable
Describe(r, c) ==
    LET candidates == r.tagged \cap Reach(r, c)
        depth(t) == Cardinality(Reach(r, c) \ Reach(r, t))
        nearest == {t \in candidates : \A u \in candidates : depth(t) <= depth(u)}
    IN  IF candidates = {} THEN 0 ELSE Max(nearest)

\* generate_changelog, lines 120-124: describe("<current>^", abbrev=0);
\* 0 stands for THE_NULL_COMMIT
PreviousTag(r) ==
    IF r.parents[r.head] = <<>> THEN 0 ELSE Describe(r, r.parents[r.head][1])

\* repo.iter_commits("previous..current"): git rev-list walks from current,
\* newest commit first, and leaves out what previous reaches (the empty
\* tree reaches nothing)
RECURSIVE RevListWalk(_, _, _, _)
RevListWalk(r, queue, hidden, out) ==
    IF queue = {} THEN out
    ELSE LET c == Max(queue)
             rest == (queue \ {c}) \cup Range(r.parents[c])
         IN  RevListWalk(r, rest, hidden,
                         IF c \in hidden THEN out ELSE Append(out, c))

IterCommits(r, prev, cur) ==
    RevListWalk(r, {cur}, IF prev = 0 THEN {} ELSE Reach(r, prev), <<>>)

IsMergeMutant(r, c) == Len(r.parents[c]) > 2

\* line 129: len(commit.parents) <= 1 keeps a commit
IsMerge(r, c) == ~(Len(r.parents[c]) <= 1)

RECURSIVE SelectSeq2(_, _, _)
SelectSeq2(r, cs, i) ==
    IF i > Len(cs) THEN <<>>
    ELSE (IF IsMerge(r, cs[i]) THEN <<>> ELSE <<cs[i]>>) \o SelectSeq2(r, cs, i + 1)

Entry(r, c) == <<Shorten(r, Hexsha(c)), Summary(c)>>

\* generate_changelog, lines 125-129
ChangelogOf(r, prev) ==
    LET kept == SelectSeq2(r, IterCommits(r, prev, r.head), 1)
    IN  [i \in 1..Len(kept) |-> Entry(r, kept[i])]

----------------------------------------------------------------------------
(* The changelog formatters.  A text is a sequence of pieces; "\n" is the  *)
(* piece that separates lines.                                             *)

\* the backquote character of the reStructuredText references
Backtick == "<backtick>"

Organization == <<"acme">>
RepositoryName == <<"widget">>

\* CHANGELOG_HEADER.splitlines(False), lines 53-57
ChangelogHeaderLines ==
    << <<>>, <<"Changes since last version">>, <<"--------------------------">>, <<>> >>

\* "\n".join(lines)
RECURSIVE JoinLines(_)
JoinLines(lines) ==
    IF lines = <<>> THEN <<>>
    ELSE IF Len(lines) = 1 THEN lines[1]
    ELSE lines[1] \o <<"\n">> \o JoinLines(Tail(lines))

\* ISSUE_NUMBER = re.compile(r"#(\d+)"): the end of the match that starts
\* at position i (\d+ is greedy), 0 when there is none
IssueMatchEnd(s, i) ==
    IF i < Len(s) /\ s[i] = "#" /\ s[i + 1] \in Digit
    THEN Max({j \in (i + 1)..Len(s) : \A k \in (i + 1)..j : s[k] \in Digit})
    ELSE 0

\* ISSUE_NUMBER.finditer(summary): match.group(1) of the matches, left to
\* right, not overlapping
RECURSIVE FindIssues(_, _)
FindIssues(s, i) ==
    IF i > Len(s) THEN <<>>
    ELSE LET e == IssueMatchEnd(s, i)
         IN  IF e = 0 THEN FindIssues(s, i + 1)
             ELSE <<SubSeq(s, i + 1, e)>> \o FindIssues(s, e + 1)

\* ISSUE_NUMBER.sub(r"<backtick>#\1<backtick>_", summary), line 187
RECURSIVE SubIssues(_, _)
SubIssues(s, i) ==
    IF i > Len(s) THEN <<>>
    ELSE LET e == IssueMatchEnd(s, i)
         IN  IF e = 0 THEN <<s[i]>> \o SubIssues(s, i + 1)
             ELSE <<Backtick, "#">> \o SubSeq(s, i + 1, e) \o <<Backtick, "_">> \o SubIssues(s, e + 1)

\* lines 181-182
CommitTarget(sha, org, name) ==
    <<".. _">> \o sha \o <<": https://github.com/">> \o org \o <<"/">> \o name
        \o <<"/commit/">> \o sha

\* lines 185-186
IssueTarget(num, org, name) ==
    <<".. _#">> \o num \o <<": https://github.com/">> \o org \o <<"/">> \o name
        \o <<"/issues/">> \o num

\* links[key] = value on a dict: a key that is there keeps its place
DictSet(links, key, value) ==
    IF \E i \in DOMAIN links : links[i][1] = key
    THEN [i \in DOMAIN links |-> IF links[i][1] = key THEN <<key, value>> ELSE links[i]]
    ELSE Append(links, <<key, value>>)

RECURSIVE DictSetIssues(_, _, _, _)
DictSetIssues(links, issues, org, name) ==
    IF issues = <<>> THEN links
    ELSE DictSetIssues(DictSet(links, Head(issues), IssueTarget(Head(issues), org, name)),
                       Tail(issues), org, name)

\* the loop of lines 180-188: state is [output, links]
RECURSIVE FormatRstLoop(_, _, _, _, _)
FormatRstLoop(entries, output, links, org, name) ==
    IF entries = <<>> THEN [output |-> output, links |-> links]
    ELSE LET sha == Head(entries)[1]
             summary == Head(entries)[2]
             links1 == DictSet(links, sha, CommitTarget(sha, org, name))
             links2 == DictSetIssues(links1, FindIssues(summary, 1), org, name)
             bullet == <<"* ", Backtick>> \o sha \o <<Backtick, "_: ">> \o SubIssues(summary, 1)
         IN  FormatRstLoop(Tail(entries), Append(output, bullet), links2, org, name)

\* format_rst_changelog, lines 177-191
FormatRstChangelog(entries, org, name) ==
    LET done == FormatRstLoop(entries, ChangelogHeaderLines, <<>>, org, name)
        values == [i \in DOMAIN done.links |-> done.links[i][2]]
    IN  JoinLines(Append(done.output, <<>>) \o values)

\* format_gh_changelog, lines 194-201 (its links dict stays empty)
FormatGhChangelog(entries) ==
    LET bullets == [i \in DOMAIN entries |->
                        <<"* ">> \o entries[i][1] \o <<": ">> \o entries[i][2]]
    IN  JoinLines(Append(ChangelogHeaderLines \o bullets, <<>>))

(* The formatters on their own: a changelog is built entry by entry, then  *)
(* formatted.                                                              *)

SummaryChars == {"#", "1", "2", "f"}

RECURSIVE Strings(_, _)
Strings(chars, n) ==
    IF n = 0 THEN {<<>>}
    ELSE LET shorter == Strings(chars, n - 1)
         IN  shorter \cup {Append(t, c) : t \in {u \in shorter : Len(u) = n - 1}, c \in chars}

\* short shas: one of digits only, one with letters
FmtShas == {<<"1", "2">>, <<"a", "b">>}

FmtIdle == fmt_changelog = <<>> /\ fmt_done = FALSE /\ rst_output = <<>> /\ gh_output = <<>>

AddEntry ==
    /\ ~fmt_done
    /\ Len(fmt_changelog) < MaxEntries
    /\ \E sha \in FmtShas, summary \in Strings(SummaryChars, MaxSummaryLen) :
            fmt_changelog' = Append(fmt_changelog, <<sha, summary>>)
    /\ UNCHANGED <<fmt_done, rst_output, gh_output>>
    /\ UNCHANGED <<runVars, logVars, tagVars>>

FormatChangelog ==
    /\ ~fmt_done
    /\ fmt_done' = TRUE
    /\ rst_output' = FormatRstChangelog(fmt_changelog, Organization, RepositoryName)
    /\ gh_output' = FormatGhChangelog(fmt_changelog)
    /\ UNCHANGED fmt_changelog
    /\ UNCHANGED <<runVars, logVars, tagVars>>

----------------------------------------------------------------------------
(* One run of main(): the checkout, the options and the environment are    *)
(* the inputs; the outcomes of the external calls are chosen when made.    *)

\* Repository.current_tag, lines 72-81: None, a Commit (a branch or a
\* lightweight tag: no .tag attribute) or a TagObject with its .tag name
SampleTagNames ==
    {<<"v", "1", ".", "0", ".", "1">>, <<"v", "1", ".", "0", "2">>, <<"1", ".", "2">>}

CurrentTags ==
    {[kind |-> "None", tag |-> <<>>], [kind |-> "Commit", tag |-> <<>>]}
        \cup {[kind |-> "TagObject", tag |-> n] : n \in SampleTagNames}

Checkouts ==
    [is_dirty : BOOLEAN, untracked_files : {<<>>, <<"junk.txt">>}, current_tag : CurrentTags]

\* ready_for_release, lines 91-116: what it returns
ReadyForReleaseResult(force, co) ==
    IF force THEN TRUE
    ELSE IF co.is_dirty THEN FALSE
    ELSE IF co.untracked_files # <<>> THEN FALSE
    ELSE IF co.current_tag.kind = "None" THEN FALSE
    ELSE IF co.current_tag.kind = "Commit" THEN FALSE
    ELSE ReleaseTagPatternMatch(co.current_tag.tag)

\* ready_for_release, lines 91-116: what it prints, as <<stream, text, argument>>
ReadyForReleasePrints(force, co) ==
    IF force THEN <<>>
    ELSE IF co.is_dirty THEN << <<"stderr", "Repository is dirty", <<>> >> >>
    ELSE IF co.untracked_files # <<>>
        THEN << <<"stderr", "Repository has untracked files:", co.untracked_files>> >>
    ELSE IF co.current_tag.kind = "None" THEN << <<"stdout", "No tag found", <<>> >> >>
    ELSE IF co.current_tag.kind = "Commit"
        THEN << <<"stdout", "Unable to read tag name", <<>> >> >>
    ELSE IF ReleaseTagPatternMatch(co.current_tag.tag) THEN <<>>
    ELSE << <<"stdout", "Tag {} is not a valid release tag", co.current_tag.tag>> >>

NotReadyNever(r) == FALSE

\* publish, line 225: if not repo.ready_for_release()
NotReady(r) == ~r

CheckCallNeverRaises(status) == "ok"

\* subprocess.check_call, lines 160 and 213: a non-zero exit status raises
CheckCall(status) == IF status = 0 THEN "ok" ELSE "CalledProcessError"

RunsProcessAlways(dry_run) == TRUE

\* Uploader._call, lines 156-160: the process runs unless dry_run
RunsProcess(dry_run) == ~dry_run

\* publish, line 235: except subprocess.CalledProcessError
Caught(exc) == exc = "CalledProcessError"

\* what gh_release_create may do: return, or raise (it is a library call,
\* not a subprocess: its own errors are not CalledProcessError)
GithubOutcomes == {"ok", "CalledProcessError", "OtherError"}

\* what subprocess.check_call("twine", ...) may do: exit status 0, a
\* non-zero exit status, or no such executable
TwineOutcomes == {"ok", "CalledProcessError", "OSError"}

\* a | b on non-negative integers
RECURSIVE BitOr(_, _)
BitOr(a, b) ==
    IF a = 0 THEN b
    ELSE IF b = 0 THEN a
    ELSE (IF a % 2 = 1 \/ b % 2 = 1 THEN 1 ELSE 0) + 2 * BitOr(a \div 2, b \div 2)

Emit(stream, text, arg) == Append(printed, <<stream, text, arg>>)

\* main, lines 240-248, and publish, line 224: parse the arguments, open the
\* repository.  The environment is not consulted.
Main ==
    /\ pc = "main"
    /\ pc' = "ready_for_release"
    /\ UNCHANGED <<options, github_token, checkout, ready, tmpfile, tmp_content,
                   build_result, upload_result, return_code, returned, exception,
                   exit_code, calls, printed>>
    /\ UNCHANGED <<logVars, tagVars, fmtVars>>

\* publish, line 225: the call of ready_for_release
ReadyForRelease ==
    /\ pc = "ready_for_release"
    /\ ready' = ReadyForReleaseResult(options.force, checkout)
    /\ printed' = printed \o ReadyForReleasePrints(options.force, checkout)
    /\ pc' = "publish_gate"
    /\ UNCHANGED <<options, github_token, checkout, tmpfile, tmp_content,
                   build_result, upload_result, return_code, returned, exception,
                   exit_code, calls>>
    /\ UNCHANGED <<logVars, tagVars, fmtVars>>

\* publish, lines 225-227
PublishNotReady ==
    /\ pc = "publish_gate"
    /\ NotReady(ready)
    /\ printed' = Emit("stderr", "Repository is not ready for release", <<>>)
    /\ returned' = <<1>>
    /\ pc' = "returned"
    /\ UNCHANGED <<options, github_token, checkout, ready, tmpfile, tmp_content,
                   build_result, upload_result, return_code, exception,
                   exit_code, calls>>
    /\ UNCHANGED <<logVars, tagVars, fmtVars>>

\* generate_changelog, lines 120-124: with no current tag, describe("None^")
\* fails and is caught like any failed lookup
DescribePrevious ==
    /\ pc = "publish_gate"
    /\ ~NotReady(ready)
    /\ previous' = IF checkout.current_tag.kind = "None" THEN 0 ELSE PreviousTag(repo)
    /\ pc' = "iter_commits"
    /\ UNCHANGED <<options, github_token, checkout, ready, tmpfile, tmp_content,
                   build_result, upload_result, return_code, returned, exception,
                   exit_code, calls, printed>>
    /\ UNCHANGED <<repo, changelog, tagVars, fmtVars>>

\* generate_changelog, lines 125-129: with no current tag the range is
\* "<previous>..None", which git rejects (GitCommandError, not caught)
CollectChangelog ==
    /\ pc = "iter_commits"
    /\ IF checkout.current_tag.kind = "None"
       THEN /\ exception' = "GitCommandError"
            /\ pc' = "raised"
            /\ UNCHANGED changelog
       ELSE /\ changelog' = ChangelogOf(repo, previous)
            /\ pc' = "create_artifacts"
            /\ UNCHANGED exception
    /\ UNCHANGED <<options, github_token, checkout, ready, tmpfile, tmp_content,
                   build_result, upload_result, return_code, returned,
                   exit_code, calls, printed>>
    /\ UNCHANGED <<repo, previous, tagVars, fmtVars>>

\* create_artifacts, lines 209-212: mkstemp, format, write
CreateTempfile ==
    /\ pc = "create_artifacts"
    /\ tmpfile' = "exists"
    /\ \E write_ok \in BOOLEAN :
        IF write_ok
        THEN /\ tmp_content' = FormatRstChangelog(changelog, Organization, RepositoryName)
             /\ pc' = "build"
             /\ UNCHANGED exception
        ELSE /\ exception' = "IOError"
             /\ pc' = "raised"
             /\ UNCHANGED tmp_content
    /\ UNCHANGED <<options, github_token, checkout, ready,
                   build_result, upload_result, return_code, returned,
                   exit_code, calls, printed>>
    /\ UNCHANGED <<logVars, tagVars, fmtVars>>

\* create_artifacts, lines 213-218: the setup.py subprocess, whatever dry_run is
Build ==
    /\ pc = "build"
    /\ calls' = Append(calls, "subprocess:setup.py")
    /\ \E status \in {0, 1} :
        /\ build_result' = IF status = 0 THEN "ok" ELSE "failed"
        /\ IF CheckCall(status) = "ok"
           THEN pc' = "unlink" /\ UNCHANGED exception
           ELSE pc' = "raised" /\ exception' = CheckCall(status)
    /\ UNCHANGED <<options, github_token, checkout, ready, tmpfile, tmp_content,
                   upload_result, return_code, returned, exit_code, printed>>
    /\ UNCHANGED <<logVars, tagVars, fmtVars>>

\* create_artifacts, lines 219-220, and publish, lines 230-231
Unlink ==
    /\ pc = "unlink"
    /\ tmpfile' = "deleted"
    /\ return_code' = 0
    /\ pc' = "github_release"
    /\ UNCHANGED <<options, github_token, checkout, ready, tmp_content,
                   build_result, upload_result, returned, exception,
                   exit_code, calls, printed>>
    /\ UNCHANGED <<logVars, tagVars, fmtVars>>

\* publish, lines 232-236 with i = 0: Uploader.github_release, lines 165-170
GithubRelease ==
    /\ pc = "github_release"
    /\ calls' = Append(calls, IF options.dry_run THEN "gh_release_create:dry_run"
                                                 ELSE "gh_release_create:publish")
    /\ \E outcome \in GithubOutcomes :
        /\ upload_result' =
                [upload_result EXCEPT !.github = IF outcome = "ok" THEN "ok" ELSE "failed"]
        /\ IF outcome = "ok"
           THEN pc' = "pypi_release" /\ UNCHANGED <<return_code, exception>>
           ELSE IF Caught(outcome)
           THEN /\ return_code' = BitOr(return_code, 2 ^ 0)
                /\ pc' = "pypi_release"
                /\ UNCHANGED exception
           ELSE /\ exception' = outcome
                /\ pc' = "raised"
                /\ UNCHANGED return_code
    /\ UNCHANGED <<options, github_token, checkout, ready, tmpfile, tmp_content,
                   build_result, returned, exit_code, printed>>
    /\ UNCHANGED <<logVars, tagVars, fmtVars>>

\* publish, lines 232-237 with i = 1: Uploader.pypi_release, line 174, through
\* Uploader._call, lines 151-163; then return return_code
PypiRelease ==
    /\ pc = "pypi_release"
    /\ IF ~RunsProcess(options.dry_run)
       THEN /\ printed' = Emit("stdout", "Dry run. Would have called: {}", <<"twine", "upload">>)
            /\ upload_result' = [upload_result EXCEPT !.pypi = "ok"]
            /\ returned' = <<return_code>>
            /\ pc' = "returned"
            /\ UNCHANGED <<calls, return_code, exception>>
       ELSE /\ calls' = Append(calls, "subprocess:twine")
            /\ \E outcome \in TwineOutcomes :
                /\ upload_result' =
                    [upload_result EXCEPT !.pypi = IF outcome = "ok" THEN "ok" ELSE "failed"]
                /\ IF outcome = "ok"
                   THEN /\ returned' = <<return_code>>
                        /\ pc' = "returned"
                        /\ UNCHANGED <<return_code, exception, printed>>
                   ELSE IF Caught(outcome)
                   THEN /\ printed' = Emit("stderr", "Failed to upload artifacts to PyPI", <<>>)
                        /\ return_code' = BitOr(return_code, 2 ^ 1)
                        /\ returned' = <<return_code'>>
                        /\ pc' = "returned"
                        /\ UNCHANGED exception
                   ELSE /\ exception' = outcome
                        /\ pc' = "raised"
                        /\ UNCHANGED <<return_code, returned, printed>>
    /\ UNCHANGED <<options, github_token, checkout, ready, tmpfile, tmp_content,
                   build_result, exit_code>>
    /\ UNCHANGED <<logVars, tagVars, fmtVars>>

\* main, line 248: sys.exit(publish(options))
SysExit ==
    /\ pc = "returned"
    /\ exit_code' = returned
    /\ pc' = "exited"
    /\ UNCHANGED <<options, github_token, checkout, ready, tmpfile, tmp_content,
                   build_result, upload_result, return_code, returned, exception,
                   calls, printed>>
    /\ UNCHANGED <<logVars, tagVars, fmtVars>>

----------------------------------------------------------------------------
(* Specifications *)

RunIdle ==
    /\ pc = "idle"
    /\ options = [force |-> FALSE, dry_run |-> FALSE]
    /\ github_token = TRUE
    /\ checkout = [is_dirty |-> FALSE, untracked_files |-> <<>>,
                   current_tag |-> [kind |-> "TagObject", tag |-> <<"v", "1">>]]
    /\ ready = FALSE
    /\ tmpfile = "none"
    /\ tmp_content = <<>>
    /\ build_result = "unrun"
    /\ upload_result = [github |-> "unattempted", pypi |-> "unattempted"]
    /\ return_code = 0
    /\ returned = <<>>
    /\ exception = "none"
    /\ exit_code = <<>>
    /\ calls = <<>>
    /\ printed = <<>>

LogIdle ==
    /\ repo \in {r \in SampleRepos : r.tagged = {MaxCommits}}
    /\ previous = 0
    /\ changelog = <<>>

\* a run of main() on any checkout, options and environment
Init ==
    /\ pc = "main"
    /\ options \in [force : BOOLEAN, dry_run : BOOLEAN]
    /\ github_token \in BOOLEAN
    /\ checkout \in Checkouts
    /\ ready = FALSE
    /\ tmpfile = "none"
    /\ tmp_content = <<>>
    /\ build_result = "unrun"
    /\ upload_result = [github |-> "unattempted", pypi |-> "unattempted"]
    /\ return_code = 0
    /\ returned = <<>>
    /\ exception = "none"
    /\ exit_code = <<>>
    /\ calls = <<>>
    /\ printed = <<>>
    /\ repo \in SampleRepos
    /\ previous = 0
    /\ changelog = <<>>
    /\ TagIdle
    /\ FmtIdle

Next ==
    \/ Main
    \/ ReadyForRelease
    \/ PublishNotReady
    \/ DescribePrevious
    \/ CollectChangelog
    \/ CreateTempfile
    \/ Build
    \/ Unlink
    \/ GithubRelease
    \/ PypiRelease
    \/ SysExit

Spec == Init /\ [][Next]_vars

\* generate_changelog on every repository, called by publish on a checkout
\* that is ready for release
InitLog ==
    /\ pc = "publish_gate"
    /\ options = [force |-> FALSE, dry_run |-> FALSE]
    /\ github_token = TRUE
    /\ checkout = [is_dirty |-> FALSE, untracked_files |-> <<>>,
                   current_tag |-> [kind |-> "TagObject", tag |-> <<"v", "1">>]]
    /\ ready = TRUE
    /\ tmpfile = "none"
    /\ tmp_content = <<>>
    /\ build_result = "unrun"
    /\ upload_result = [github |-> "unattempted", pypi |-> "unattempted"]
    /\ return_code = 0
    /\ returned = <<>>
    /\ exception = "none"
    /\ exit_code = <<>>
    /\ calls = <<>>
    /\ printed = <<>>
    /\ repo \in AllRepos
    /\ previous = 0
    /\ changelog = <<>>
    /\ TagIdle
    /\ FmtIdle

NextLog == DescribePrevious \/ CollectChangelog

SpecLog == InitLog /\ [][NextLog]_vars

\* RELEASE_TAG_PATTERN on every tag name of at most MaxTagLen characters
InitTag == RunIdle /\ LogIdle /\ TagIdle /\ FmtIdle

NextTag == AppendTagChar \/ MatchTag

SpecTag == InitTag /\ [][NextTag]_vars

\* the formatters on every changelog of at most MaxEntries entries
InitFmt == RunIdle /\ LogIdle /\ TagIdle /\ FmtIdle

NextFmt == AddEntry \/ FormatChangelog

SpecFmt == InitFmt /\ [][NextFmt]_vars

----------------------------------------------------------------------------
(* Properties *)

Contains(seq, x) == \E i \in DOMAIN seq : seq[i] = x

PrintedText(text) == \E i \in DOMAIN printed : printed[i][2] = text

\* ready_for_release has returned
Validated == pc \notin {"idle", "main", "ready_for_release"}

\* publish has been left, by return or by an exception
PublishLeft == pc \in {"returned", "exited", "raised"}

\* a numeric component with no leading zero
IsStrictComponent(t) ==
    /\ Len(t) >= 1
    /\ \A k \in DOMAIN t : t[k] \in Digit
    /\ t = <<"0">> \/ t[1] # "0"

\* v, then 1 to 3 such components separated by dots
StrictReleaseShape(s) ==
    /\ Len(s) >= 2
    /\ s[1] = "v"
    /\ LET body == Tail(s)
           n == Len(body)
       IN  \/ IsStrictComponent(body)
           \/ \E i \in 1..n :
                /\ body[i] = "."
                /\ IsStrictComponent(SubSeq(body, 1, i - 1))
                /\ IsStrictComponent(SubSeq(body, i + 1, n))
           \/ \E i \in 1..n : \E j \in (i + 1)..n :
                /\ body[i] = "." /\ body[j] = "."
                /\ IsStrictComponent(SubSeq(body, 1, i - 1))
                /\ IsStrictComponent(SubSeq(body, i + 1, j - 1))
                /\ IsStrictComponent(SubSeq(body, j + 1, n))

\* C1: the tag-shape check accepts a tag name if and only if it is v followed
\* by 1 to 3 dot-separated numeric components, each 0 or without a leading
\* zero.
C1_AcceptsExactlyStrictShape ==
    tag_checked => (valid_tag <=> StrictReleaseShape(tag_name))

\* C2: with force as without, ready_for_release returns false when the
\* checkout does not resolve to a tag or the tag name does not match the
\* release tag pattern.
C2_ForceKeepsTagChecks ==
    (/\ Validated
     /\ \/ checkout.current_tag.kind # "TagObject"
        \/ ~ReleaseTagPatternMatch(checkout.current_tag.tag))
        => ~ready

\* C3: when ready_for_release returns false, publish returns 1 and no build
\* and no upload is ever invoked; a build or an upload is only reached
\* after ready_for_release returned true.
C3_ValidatorGatesEverything ==
    /\ (Validated /\ ~ready) =>
            /\ pc \in {"publish_gate", "returned", "exited"}
            /\ calls = <<>>
            /\ tmpfile = "none"
            /\ build_result = "unrun"
            /\ upload_result = [github |-> "unattempted", pypi |-> "unattempted"]
            /\ exception = "none"
            /\ PublishLeft => returned = <<1>>
    /\ (\/ calls # <<>>
        \/ build_result # "unrun"
        \/ upload_result # [github |-> "unattempted", pypi |-> "unattempted"])
            => (Validated /\ ready)

C3_Witness ==
    /\ pc = "exited"
    /\ ~ready
    /\ exit_code = <<1>>
    /\ calls = <<>>
    /\ PrintedText("Repository is not ready for release")

\* C4: when the setup.py subprocess of create_artifacts fails, the run
\* aborts: no upload is attempted and publish does not return.
C4_BuildFailureAborts ==
    build_result = "failed" =>
        /\ pc = "raised"
        /\ exception = "CalledProcessError"
        /\ returned = <<>>
        /\ exit_code = <<>>
        /\ upload_result = [github |-> "unattempted", pypi |-> "unattempted"]
        /\ \A i \in DOMAIN calls : calls[i] = "subprocess:setup.py"

C4_Witness ==
    /\ build_result = "failed"
    /\ pc = "raised"
    /\ Contains(calls, "subprocess:setup.py")

\* the exit code the two upload results stand for
UploadBitmask ==
    (IF upload_result.github = "failed" THEN 1 ELSE 0)
        + (IF upload_result.pypi = "failed" THEN 2 ELSE 0)

\* C5: once validation and the build have succeeded, both uploads are
\* attempted, the release host first, whatever the outcome of the other;
\* the exit code is the bitmask of the failures and no upload failure is
\* raised out of publish.
C5_UploadsIndependent ==
    (build_result = "ok" /\ PublishLeft) =>
        /\ exception = "none"
        /\ upload_result.github # "unattempted"
        /\ upload_result.pypi # "unattempted"
        /\ returned = <<UploadBitmask>>
        /\ \A i \in DOMAIN calls : calls[i] = "subprocess:twine" =>
                \E j \in 1..(i - 1) :
                    calls[j] \in {"gh_release_create:publish", "gh_release_create:dry_run"}

\* C6: the temporary changelog file no longer exists when create_artifacts
\* is left, on every exit path.
C6_TempfileAlwaysRemoved ==
    (tmpfile # "none" /\ pc \notin {"build", "unlink"}) => tmpfile = "deleted"

\* C7 as stated: with dry_run no external process is invoked at any step
\* and no real release-host upload is made.
C7_DryRunNoProcessAtAll ==
    options.dry_run =>
        \A i \in DOMAIN calls :
            calls[i] \notin {"subprocess:setup.py", "subprocess:twine",
                             "gh_release_create:publish"}

\* C7 as amended: with dry_run the package-index upload process is not
\* invoked but printed, and the release-host call is made in its dry-run
\* mode; validation, changelog generation and the setup.py build
\* subprocess still run for real.
C7_DryRunSkipsUploadsOnly ==
    options.dry_run =>
        /\ \A i \in DOMAIN calls :
                calls[i] \notin {"subprocess:twine", "gh_release_create:publish"}
        /\ upload_result.pypi # "unattempted" =>
                PrintedText("Dry run. Would have called: {}")
        /\ upload_result.github # "unattempted" =>
                Contains(calls, "gh_release_create:dry_run")
        /\ pc \in {"github_release", "pypi_release"} =>
                (Validated /\ Contains(calls, "subprocess:setup.py"))
        /\ (PublishLeft /\ returned # <<1>> /\ exception = "none") =>
                Contains(calls, "subprocess:setup.py")

C7_Witness ==
    /\ options.dry_run
    /\ pc = "exited"
    /\ exit_code = <<0>>
    /\ PrintedText("Dry run. Would have called: {}")
    /\ calls = <<"subprocess:setup.py", "gh_release_create:dry_run">>

\* C8: when the release-host access token is absent, the process exits
\* with code 3 before any work: no validation, changelog, build or upload.
C8_MissingTokenExitsFirst ==
    ~github_token =>
        /\ pc \in {"main", "exited"}
        /\ pc = "exited" => exit_code = <<3>>
        /\ calls = <<>>
        /\ tmpfile = "none"
        /\ changelog = <<>>

\* the lines of a text
RECURSIVE SplitLines(_, _)
SplitLines(text, line) ==
    IF text = <<>> THEN <<line>>
    ELSE IF Head(text) = "\n" THEN <<line>> \o SplitLines(Tail(text), <<>>)
    ELSE SplitLines(Tail(text), Append(line, Head(text)))

\* what follows the header, the bullets and the empty line
LinkSection(text, entries) ==
    LET lines == SplitLines(text, <<>>)
    IN  SubSeq(lines, Len(ChangelogHeaderLines) + Len(entries) + 2, Len(lines))

\* the references of a changelog in the order they are written: each
\* entry's commit, then the issues of its summary
RECURSIVE References(_)
References(entries) ==
    IF entries = <<>> THEN <<>>
    ELSE LET issues == FindIssues(Head(entries)[2], 1)
         IN  << <<"commit", Head(entries)[1]>> >>
                \o [i \in DOMAIN issues |-> <<"issue", issues[i]>>]
                \o References(Tail(entries))

\* a list without its repetitions, each element where it came first
RECURSIVE FirstSeen(_, _)
FirstSeen(seq, seen) ==
    IF seq = <<>> THEN <<>>
    ELSE IF Head(seq) \in seen THEN FirstSeen(Tail(seq), seen)
    ELSE <<Head(seq)>> \o FirstSeen(Tail(seq), seen \cup {Head(seq)})

ExpectedTargets(entries) ==
    LET refs == FirstSeen(References(entries), {})
    IN  [i \in DOMAIN refs |->
            IF refs[i][1] = "commit"
            THEN CommitTarget(refs[i][2], Organization, RepositoryName)
            ELSE IssueTarget(refs[i][2], Organization, RepositoryName)]

\* C9: after the bullet list, format_rst_changelog writes exactly one link
\* target for each distinct commit sha and one for each distinct issue
\* number, in first-seen order.
C9_OneTargetPerReference ==
    fmt_done => LinkSection(rst_output, fmt_changelog) = ExpectedTargets(fmt_changelog)

\* the ancestors of the commits of S, by following parents at most k times
RECURSIVE AncestorsWithin(_, _, _)
AncestorsWithin(r, S, k) ==
    IF k = 0 THEN S
    ELSE AncestorsWithin(r, S \cup UNION {Range(r.parents[c]) : c \in S}, k - 1)

Ancestors(r, c) == IF c = 0 THEN {} ELSE AncestorsWithin(r, {c}, Len(r.parents))

RECURSIVE NewestFirst(_)
NewestFirst(S) == IF S = {} THEN <<>> ELSE <<Max(S)>> \o NewestFirst(S \ {Max(S)})

\* the annotated tags strictly before the head, seen from its first parent
EarlierTags(r) ==
    IF r.parents[r.head] = <<>> THEN {}
    ELSE r.tagged \cap Ancestors(r, r.parents[r.head][1])

====
